---- MODULE Spec2Model ----
(***************************************************************************)
(* A model of the Korad power-supply driver of src/py/korad_api.py: the    *)
(* object-oriented interface (class Korad), the serial transport it calls  *)
(* (pyserial), and a device at the far end of the line.                    *)
(*                                                                         *)
(* Data on the wire are sequences of bytes (0..255).  Text is written as   *)
(* tuples of one-character strings and encoded with Enc.  Voltages and     *)
(* currents are records [isint, c]: c is the value in hundredths, isint    *)
(* says whether the Python value is an int (formatted "30") or a float     *)
(* (formatted "3.29", "30.0").                                             *)
(***************************************************************************)
EXTENDS Integers, Sequences, FiniteSets, TLC

\* ------------------------------------------------------------------ bounds

\* The channel arguments the caller uses, and the channels the device keeps.
MaxCh == 2
\* The length of the generated identification strings (SpecIdentify).
MaxIdLen == 6
\* The memory slots save_settings() and recall_settings() are called with.
MaxSlot == 2
\* The received bytes that may wait unread when a read operation starts.
MaxRx == 6
\* The method calls the caller makes on one object.
MaxCalls == 2

\* -------------------------------------------------------------------- text

\* The printable ASCII characters, code 32 first (the three a TLA+ string cannot
\* hold as they are stand under their names; no text of the model uses them).
AsciiPrintable ==
    <<" ", "!", "QUOTE", "#", "$", "%", "&", "'", "(", ")", "*", "+", ",", "-", ".", "/",
      "0", "1", "2", "3", "4", "5", "6", "7", "8", "9", ":", ";", "<", "=", ">", "?",
      "@", "A", "B", "C", "D", "E", "F", "G", "H", "I", "J", "K", "L", "M", "N", "O",
      "P", "Q", "R", "S", "T", "U", "V", "W", "X", "Y", "Z", "[", "BACKSLASH", "]", "^", "_",
      "BACKTICK", "a", "b", "c", "d", "e", "f", "g", "h", "i", "j", "k", "l", "m", "n", "o",
      "p", "q", "r", "s", "t", "u", "v", "w", "x", "y", "z", "{", "|", "}", "~">>

\* ord() of the characters of table t, whose first has code 32.
OrdOf(t) == [ch \in {t[i] : i \in 1..Len(t)} |-> 31 + (CHOOSE i \in 1..Len(t) : t[i] = ch)]

\* ord() of a printable ASCII character.
Ord == OrdOf(AsciiPrintable)

\* str.encode('utf-8') of ASCII text: one byte per character.
Enc(text) == [i \in 1..Len(text) |-> Ord[text[i]]]

\* The line terminator readline() reads up to, "\n".
LF == 10

\* The bytes bytes.rstrip() strips: tab, LF, VT, FF, CR and space.
Whitespace == {9, 10, 11, 12, 13, 32}

IsDigit(b) == b \in Ord["0"]..Ord["9"]

\* str.lower() of one ASCII code point.
Lower(b) == IF b \in Ord["A"]..Ord["Z"] THEN b + (Ord["a"] - Ord["A"]) ELSE b

\* bytes.rstrip(): the trailing whitespace removed.
RECURSIVE rstrip(_)
rstrip(bs) ==
    IF bs # <<>> /\ bs[Len(bs)] \in Whitespace
    THEN rstrip(SubSeq(bs, 1, Len(bs) - 1))
    ELSE bs

\* bytes.decode('utf-8') of the replies the model sends: ASCII decodes to the same
\* code points; a lone byte above 127 is no UTF-8 text and raises UnicodeDecodeError.
decode_ok(bs) == \A i \in 1..Len(bs) : bs[i] < 128

\* int() of a non-empty string of ASCII digits.
RECURSIVE int(_)
int(ds) ==
    IF ds = <<>> THEN 0
    ELSE 10 * int(SubSeq(ds, 1, Len(ds) - 1)) + (ds[Len(ds)] - Ord["0"])

\* str() of an int >= 0, as bytes.
RECURSIVE Digits(_)
Digits(n) ==
    IF n < 10 THEN <<Ord["0"] + n>>
    ELSE Digits(n \div 10) \o <<Ord["0"] + (n % 10)>>

Abs(n) == IF n < 0 THEN -n ELSE n

\* ----------------------------------------------------------------- numbers

\* A Python int n and a Python float of h hundredths.
PyInt(n) == [isint |-> TRUE, c |-> 100 * n]
PyFloat(h) == [isint |-> FALSE, c |-> h]

\* The format were it '{:.1f}': one decimal.
PyFormatOneDecimal(x) ==
    IF x.isint
    THEN (IF x.c < 0 THEN Enc(<<"-">>) ELSE <<>>) \o Digits(Abs(x.c) \div 100)
    ELSE (IF x.c < 0 THEN Enc(<<"-">>) ELSE <<>>)
         \o Digits(((Abs(x.c) + 5) \div 10) \div 10)
         \o <<Ord["."], Ord["0"] + (((Abs(x.c) + 5) \div 10) % 10)>>

\* '{}'.format(x) of a number: str(int), or repr(float) (the shortest decimal that
\* reads back as the float: "3.29", "3.3", "3.0").
PyFormat(x) ==
    LET a == Abs(x.c)
        sign == IF x.c < 0 THEN Enc(<<"-">>) ELSE <<>>
        frac == IF (a % 100) % 10 = 0
                THEN <<Ord["0"] + ((a % 100) \div 10)>>
                ELSE <<Ord["0"] + ((a % 100) \div 10), Ord["0"] + (a % 10)>>
    IN  IF x.isint
        THEN sign \o Digits(a \div 100)
        ELSE sign \o Digits(a \div 100) \o Enc(<<".">>) \o frac

\* Where a decimal literal splits: the index of its first ".", or Len + 1.
DotAt(s) ==
    IF \E i \in 1..Len(s) : s[i] = Ord["."]
    THEN CHOOSE i \in 1..Len(s) : s[i] = Ord["."] /\ \A j \in 1..(i - 1) : s[j] # Ord["."]
    ELSE Len(s) + 1

\* Whether s is [sign] digits [. digits] with at least one digit.
IsDecimal(s) ==
    LET u == IF s # <<>> /\ s[1] \in {Ord["+"], Ord["-"]} THEN Tail(s) ELSE s
        d == DotAt(u)
    IN  /\ \A i \in 1..Len(u) : i # d => IsDigit(u[i])
        /\ Len(u) - (IF d <= Len(u) THEN 1 ELSE 0) >= 1

\* The value of such a literal in hundredths (further decimals are dropped: the
\* model's values have two).
DecimalValue(s) ==
    LET neg == s # <<>> /\ s[1] = Ord["-"]
        u == IF s # <<>> /\ s[1] \in {Ord["+"], Ord["-"]} THEN Tail(s) ELSE s
        d == DotAt(u)
        ip == int(SubSeq(u, 1, d - 1))
        f1 == IF d + 1 <= Len(u) THEN u[d + 1] - Ord["0"] ELSE 0
        f2 == IF d + 2 <= Len(u) THEN u[d + 2] - Ord["0"] ELSE 0
        v == 100 * ip + 10 * f1 + f2
    IN  IF neg THEN -v ELSE v

\* float(text): the float, or ValueError when text is no number.
float(s) ==
    IF IsDecimal(s)
    THEN [err |-> "none", val |-> PyFloat(DecimalValue(s))]
    ELSE [err |-> "ValueError", val |-> PyFloat(0)]

\* ---------------------------------------------------------------- commands

KORAD_ID_CMD == Enc(<<"*", "I", "D", "N", "?">>)
KORAD_STATUS_CMD == Enc(<<"S", "T", "A", "T", "U", "S", "?">>)
KORAD_SAVE_CMD(x) == Enc(<<"S", "A", "V">>) \o Digits(x)
KORAD_RECALL_CMD(x) == Enc(<<"R", "C", "L">>) \o Digits(x)
KORAD_OCP_CMD(x) == Enc(<<"O", "C", "P">>) \o Digits(x)
KORAD_OUTPUT_CMD(x) == Enc(<<"O", "U", "T">>) \o Digits(x)
KORAD_VSET_CMD(x, y) == Enc(<<"V", "S", "E", "T">>) \o Digits(x) \o Enc(<<":">>) \o PyFormat(y)
KORAD_ISET_CMD(x, y) == Enc(<<"I", "S", "E", "T">>) \o Digits(x) \o Enc(<<":">>) \o PyFormat(y)
KORAD_VREAD_CMD(x) == Enc(<<"V", "S", "E", "T">>) \o Digits(x) \o Enc(<<"?">>)
KORAD_IREAD_CMD(x) == Enc(<<"I", "S", "E", "T">>) \o Digits(x) \o Enc(<<"?">>)
\* The measured-voltage command were it the text of the set-point query.
KORAD_VMEAS_CMDSetPoint(x) == Enc(<<"V", "S", "E", "T">>) \o Digits(x) \o Enc(<<"?">>)
KORAD_VMEAS_CMD(x) == Enc(<<"V", "O", "U", "T">>) \o Digits(x) \o Enc(<<"?">>)
KORAD_IMEAS_CMD(x) == Enc(<<"I", "O", "U", "T">>) \o Digits(x) \o Enc(<<"?">>)

\* ------------------------------------------------------------ model number

\* The index after the run of digits of s that starts at i.
RECURSIVE DigitRunEnd(_, _)
DigitRunEnd(s, i) ==
    IF i <= Len(s) /\ IsDigit(s[i]) THEN DigitRunEnd(s, i + 1) ELSE i

\* Whether k(a|d)\d\d\d+p matches s from index i on, ignoring case, the digits of
\* \d+ ending before index e.  The greedy \d+ takes the whole run of digits: a
\* shorter one is followed by a digit, not p.
ModelAtTo(s, i, e) ==
    /\ i + 5 <= Len(s)
    /\ Lower(s[i]) = Ord["k"]
    /\ Lower(s[i + 1]) \in {Ord["a"], Ord["d"]}
    /\ IsDigit(s[i + 2])
    /\ IsDigit(s[i + 3])
    /\ e > i + 4
    /\ e <= Len(s)
    /\ Lower(s[e]) = Ord["p"]

ModelAt(s, i) == ModelAtTo(s, i, DigitRunEnd(s, i + 4))

\* Where the model numbers of the first line of s start: "." matches no "\n".
ModelStarts(s) == {i \in 1..Len(s) : ModelAt(s, i) /\ \A j \in 1..(i - 1) : s[j] # LF}

\* The groups of the model number of s that starts at index i.
ModelGroups(s, i) ==
    [matched |-> TRUE,
     max_voltage |-> <<s[i + 2]>>,
     channels |-> <<s[i + 3]>>,
     max_current |-> SubSeq(s, i + 4, DigitRunEnd(s, i + 4) - 1)]

\* The match were the leading .* lazy: the first of the indices.
FirstOf(at) == CHOOSE m \in at : \A n \in at : m <= n

\* The last of a non-empty set of indices.
Last(at) == CHOOSE m \in at : \A n \in at : n <= m

\* The match among the model numbers that start at the indices at: the leading .*
\* is greedy, so the last one; matched = FALSE for None.
MatchAmong(s, at) ==
    IF at = {}
    THEN [matched |-> FALSE, max_voltage |-> <<>>, channels |-> <<>>, max_current |-> <<>>]
    ELSE ModelGroups(s, Last(at))

\* KORAD_MODEL_REGEX.match(s); the trailing .* lets anything follow.
KORAD_MODEL_REGEX_match(s) == MatchAmong(s, ModelStarts(s))

\* ------------------------------------------------------------------ device

\* The device at the far end of the line: its identification string, a set-point
\* per channel (hundredths), the output and over-current-protection switches, the
\* regulation mode and the reserved bits of its status byte.
StatusByte(d) ==
    (IF d.cv THEN 1 ELSE 0) + (IF d.ocp THEN 32 ELSE 0) + (IF d.out THEN 64 ELSE 0) + d.rsv

\* A set-point as the device prints it: two integer digits, two decimals ("03.29").
DevFormatAbs(negative, a) ==
    (IF negative THEN <<Ord["-"]>> ELSE <<>>)
    \o (IF a \div 100 < 10 THEN <<Ord["0"]>> ELSE <<>>) \o Digits(a \div 100)
    \o <<Ord["."], Ord["0"] + ((a % 100) \div 10), Ord["0"] + (a % 10)>>

DevFormat(c) == DevFormatAbs(c < 0, Abs(c))

\* What the output terminals carry: nothing with the output off, else the voltage
\* set-point in constant-voltage mode and the current set-point in constant-current
\* mode (the other quantity is then set by the load; the model reads it as 0).
DevMeasuredV(d, ch) == IF d.out /\ d.cv THEN d.vset[ch] ELSE 0
DevMeasuredI(d, ch) == IF d.out /\ ~d.cv THEN d.iset[ch] ELSE 0

\* The index of the ":" of a command, or 0.
ColonAt(cmd) ==
    IF \E i \in 1..Len(cmd) : cmd[i] = Ord[":"]
    THEN CHOOSE i \in 1..Len(cmd) : cmd[i] = Ord[":"]
    ELSE 0

\* The channel a text of digits names, or 0.
DevChannelOf(ds) ==
    IF ds # <<>> /\ (\A i \in 1..Len(ds) : IsDigit(ds[i])) /\ int(ds) \in 1..MaxCh
    THEN int(ds) ELSE 0

\* The channel of a command: the digits from index 5 to its ":" or final "?".
DevChannel(cmd, colon) ==
    IF colon > 5 THEN DevChannelOf(SubSeq(cmd, 5, colon - 1))
    ELSE IF Len(cmd) >= 6 /\ cmd[Len(cmd)] = Ord["?"] THEN DevChannelOf(SubSeq(cmd, 5, Len(cmd) - 1))
    ELSE 0

\* The device after a set command for its channel ch, with the text num after the ":".
DevSet(d, head, ch, num) ==
    IF ~IsDecimal(num) THEN d
    ELSE IF head = <<Ord["V"], Ord["S"], Ord["E"], Ord["T"]>>
    THEN [d EXCEPT !.vset[ch] = DecimalValue(num)]
    ELSE IF head = <<Ord["I"], Ord["S"], Ord["E"], Ord["T"]>>
    THEN [d EXCEPT !.iset[ch] = DecimalValue(num)]
    ELSE d

\* The reply to a query for channel ch.
DevQuery(d, cmd, ch) ==
    IF cmd = KORAD_VREAD_CMD(ch) THEN DevFormat(d.vset[ch]) \o <<LF>>
    ELSE IF cmd = KORAD_IREAD_CMD(ch) THEN DevFormat(d.iset[ch]) \o <<LF>>
    ELSE IF cmd = KORAD_VMEAS_CMD(ch) THEN DevFormat(DevMeasuredV(d, ch)) \o <<LF>>
    ELSE IF cmd = KORAD_IMEAS_CMD(ch) THEN DevFormat(DevMeasuredI(d, ch)) \o <<LF>>
    ELSE <<>>

\* The device receives one command, of channel ch or of none (0): its new state and
\* the reply line it sends (<<>>: none).  It stores the set-point of a VSETn: or
\* ISETn: command and prints it back on VSETn? or ISETn?; it drops a command it
\* does not know.
DevExecute(d, cmd, colon, ch) ==
    IF cmd = KORAD_ID_CMD THEN [dev |-> d, reply |-> d.idn \o <<LF>>]
    ELSE IF cmd = KORAD_STATUS_CMD THEN [dev |-> d, reply |-> <<StatusByte(d), LF>>]
    ELSE IF SubSeq(cmd, 1, 3) = <<Ord["O"], Ord["U"], Ord["T"]>> /\ Len(cmd) = 4 /\ cmd[4] \in {Ord["0"], Ord["1"]}
    THEN [dev |-> [d EXCEPT !.out = cmd[4] = Ord["1"]], reply |-> <<>>]
    ELSE IF SubSeq(cmd, 1, 3) = <<Ord["O"], Ord["C"], Ord["P"]>> /\ Len(cmd) = 4 /\ cmd[4] \in {Ord["0"], Ord["1"]}
    THEN [dev |-> [d EXCEPT !.ocp = cmd[4] = Ord["1"]], reply |-> <<>>]
    ELSE IF ch = 0 THEN [dev |-> d, reply |-> <<>>]
    ELSE IF colon > 5
    THEN [dev |-> DevSet(d, SubSeq(cmd, 1, 4), ch, SubSeq(cmd, colon + 1, Len(cmd))), reply |-> <<>>]
    ELSE [dev |-> d, reply |-> DevQuery(d, cmd, ch)]

DevReceiveAt(d, cmd, colon) == DevExecute(d, cmd, colon, DevChannel(cmd, colon))
DevReceive(d, cmd) == DevReceiveAt(d, cmd, ColonAt(cmd))

\* A line of noise: a reply that is no number, no status byte and no model number.
Noise == <<Ord["?"], Ord["?"], LF>>

\* What the line does with the device's reply to one command: it arrives during the
\* settle delay and the read ("prompt"), after the read has timed out ("late"),
\* never ("silent"), or noise arrives in its place ("noise").
Modes == {"prompt", "late", "silent", "noise"}

\* The line of a session: a reply arrives in time or never (SpecLate has the
\* replies that arrive late and the noise).
SessionModes == {"prompt", "silent"}

\* --------------------------------------------------------------- transport

\* One call on the transport or the clock, as the io log keeps it.
IO(call, data) == [call |-> call, data |-> data]

\* The bytes written reach the device, and its reply (r.reply) is on the wire.
Carry(ctx, data, r) ==
    [ctx EXCEPT !.io = Append(@, IO("write", data)), !.dev = r.dev, !.wire = @ \o r.reply]

\* Serial.write(data): a closed port raises PortNotOpenError; an open one carries
\* the bytes to the device.
write(ctx, data) ==
    IF ctx.port # "open"
    THEN [ctx EXCEPT !.io = Append(@, IO("write", data)), !.err = "PortNotOpenError"]
    ELSE Carry(ctx, data, DevReceive(ctx.dev, data))

\* sleep(self.timeout): the settle delay, during which the reply arrives or not.
sleep(ctx, mode) ==
    [ctx EXCEPT !.io = Append(@, IO("sleep", <<>>)),
                !.rx = IF mode = "prompt" THEN @ \o ctx.wire
                       ELSE IF mode = "noise" THEN @ \o Noise
                       ELSE @,
                !.wire = IF mode = "late" THEN @ ELSE <<>>]

\* The length of the first line of rx with its LF, or of rx when it holds no LF.
FirstLine(rx) ==
    IF \E i \in 1..Len(rx) : rx[i] = LF
    THEN CHOOSE i \in 1..Len(rx) : rx[i] = LF /\ \A j \in 1..(i - 1) : rx[j] # LF
    ELSE Len(rx)

\* The first n bytes received are read; a late reply arrives after the read.
Take(ctx, n) ==
    [ctx EXCEPT !.io = Append(@, IO("readline", <<>>)),
                !.line = SubSeq(ctx.rx, 1, n),
                !.rx = SubSeq(ctx.rx, n + 1, Len(ctx.rx)) \o ctx.wire,
                !.wire = <<>>]

\* Serial.readline(): the bytes received up to and including the first LF, or, at
\* the timeout, whatever was received.
readline(ctx) ==
    IF ctx.port # "open"
    THEN [ctx EXCEPT !.io = Append(@, IO("readline", <<>>)), !.err = "PortNotOpenError"]
    ELSE Take(ctx, FirstLine(ctx.rx))

\* ------------------------------------------------------------- class Korad

\* The value a call returns: None, a float, or the status dictionary.
None == [kind |-> "None"]
Float(x) == [kind |-> "float", val |-> x]

\* A call raises: the exception leaves every later statement of the call undone.
Raise(ctx, e) == [ctx EXCEPT !.err = e]

\* The statement after a call that may have raised.
SleepUnlessRaised(c, mode) == IF c.err # "none" THEN c ELSE sleep(c, mode)

\* send_cmd were it to end each command with a line terminator.
send_cmdTerminated(ctx, cmd, mode) ==
    IF ctx.err # "none" THEN ctx ELSE SleepUnlessRaised(write(ctx, cmd \o <<LF>>), mode)

\* send_cmd were it to write its command a second time.
WriteAgain(c, cmd) == IF c.err # "none" THEN c ELSE write(c, cmd)
send_cmdTwice(ctx, cmd, mode) ==
    IF ctx.err # "none" THEN ctx
    ELSE SleepUnlessRaised(WriteAgain(write(ctx, cmd), cmd), mode)

\* Korad.send_cmd(cmd): write, then the settle delay.
send_cmd(ctx, cmd, mode) ==
    IF ctx.err # "none" THEN ctx ELSE SleepUnlessRaised(write(ctx, cmd), mode)

\* .rstrip().decode('utf-8') of the line read: the reply text in line.
Decoded(c, text) ==
    IF c.err # "none" THEN c
    ELSE IF ~decode_ok(text) THEN Raise(c, "UnicodeDecodeError")
    ELSE [c EXCEPT !.line = text]

ReadUnlessRaised(c) == IF c.err # "none" THEN c ELSE readline(c)
DecodeLine(c) == Decoded(c, rstrip(c.line))

\* self._port.readline().rstrip().decode('utf-8') after send_cmd(cmd).
exchange(ctx, cmd, mode) == DecodeLine(ReadUnlessRaised(send_cmd(ctx, cmd, mode)))

\* return float(text)
ReturnFloat(c, f) ==
    IF c.err # "none" THEN c
    ELSE IF f.err # "none" THEN Raise(c, f.err)
    ELSE [c EXCEPT !.ret = Float(f.val)]

FloatOfLine(c) == ReturnFloat(c, float(c.line))

\* The body the four numeric reads share.
read_float(ctx, cmd, mode) == FloatOfLine(exchange(ctx, cmd, mode))

measured_voltage(ctx, ch, mode) == read_float(ctx, KORAD_VMEAS_CMD(ch), mode)
measured_current(ctx, ch, mode) == read_float(ctx, KORAD_IMEAS_CMD(ch), mode)
configured_voltage(ctx, ch, mode) == read_float(ctx, KORAD_VREAD_CMD(ch), mode)
configured_current(ctx, ch, mode) == read_float(ctx, KORAD_IREAD_CMD(ch), mode)

\* 'text with nspecs %s' % args, args a single value or an nargs-tuple: TypeError
\* unless there are as many arguments as specifiers.
PercentFormat(nspecs, nargs) == IF nspecs = nargs THEN "none" ELSE "TypeError"

\* raise ValueError('... %s ... %s' % value, maximum): the message is formatted
\* first, from two specifiers and the one argument left of the comma; the
\* exception this statement raises.
TooLargeError == IF PercentFormat(2, 1) # "none" THEN PercentFormat(2, 1) ELSE "ValueError"

\* The if/elif without its first branch: a negative value is sent as it is.
CheckedNoFloor(value, maximum, clamp) ==
    IF value.c > PyInt(maximum).c
    THEN IF clamp
         THEN [err |-> "none", val |-> PyInt(maximum)]
         ELSE [err |-> TooLargeError, val |-> value]
    ELSE [err |-> "none", val |-> value]

\* The if/elif without its second branch: a value above the maximum is sent as it is.
CheckedNoCeiling(value, maximum, clamp) ==
    IF value.c < 0 THEN [err |-> "none", val |-> PyInt(0)]
    ELSE [err |-> "none", val |-> value]

\* The if/elif were its first branch under the clamp flag too: without the flag a
\* negative value is sent as it is.
CheckedFloorIfClamp(value, maximum, clamp) ==
    IF value.c < 0
    THEN [err |-> "none", val |-> IF clamp THEN PyInt(0) ELSE value]
    ELSE IF value.c > PyInt(maximum).c
    THEN IF clamp
         THEN [err |-> "none", val |-> PyInt(maximum)]
         ELSE [err |-> TooLargeError, val |-> value]
    ELSE [err |-> "none", val |-> value]

\* The if/elif of set_voltage and set_current: the value to send, or the exception.
Checked(value, maximum, clamp) ==
    IF value.c < 0 THEN [err |-> "none", val |-> PyInt(0)]
    ELSE IF value.c > PyInt(maximum).c
    THEN IF clamp
         THEN [err |-> "none", val |-> PyInt(maximum)]
         ELSE [err |-> TooLargeError, val |-> value]
    ELSE [err |-> "none", val |-> value]

\* Korad.set_voltage(ch, voltage).
SendVoltage(ctx, ch, v) ==
    IF ctx.err # "none" THEN ctx
    ELSE IF v.err # "none" THEN Raise(ctx, v.err)
    ELSE send_cmd(ctx, KORAD_VSET_CMD(ch, v.val), "prompt")

set_voltage(ctx, self, ch, voltage) ==
    SendVoltage(ctx, ch, Checked(voltage, self.max_voltage, self.clamp))

\* Korad.set_current(ch, current).
SendCurrent(ctx, ch, v) ==
    IF ctx.err # "none" THEN ctx
    ELSE IF v.err # "none" THEN Raise(ctx, v.err)
    ELSE send_cmd(ctx, KORAD_ISET_CMD(ch, v.val), "prompt")

set_current(ctx, self, ch, current) ==
    SendCurrent(ctx, ch, Checked(current, self.max_current, self.clamp))

set_output(ctx, enable) == send_cmd(ctx, KORAD_OUTPUT_CMD(IF enable THEN 1 ELSE 0), "prompt")
set_ocp(ctx, enable) == send_cmd(ctx, KORAD_OCP_CMD(IF enable THEN 1 ELSE 0), "prompt")
save_settings(ctx, loc) == send_cmd(ctx, KORAD_SAVE_CMD(loc), "prompt")
recall_settings(ctx, loc) == send_cmd(ctx, KORAD_RECALL_CMD(loc), "prompt")

\* Korad.close(): Serial.close() closes an open port and leaves a closed one as it is.
close(ctx) ==
    [ctx EXCEPT !.io = Append(@, IO("close", <<>>)),
                !.port = IF @ = "open" THEN "closed" ELSE @]

\* params.get(key, False) of a configure() dictionary: a record with the keys given.
Get(params, key) == IF key \in DOMAIN params THEN params[key] ELSE FALSE
\* The truth value of params.get(key, False) for a list: present and not empty.
Truthy(params, key) == key \in DOMAIN params /\ params[key] # <<>>

\* The loop were it to pass over an entry that raises and go on with the next.
PassOver(ctx, c) == IF c.err # "none" THEN ctx ELSE c
RECURSIVE set_voltagesPassingOver(_, _, _)
set_voltagesPassingOver(ctx, self, entries) ==
    IF entries = <<>> THEN ctx
    ELSE set_voltagesPassingOver(
             PassOver(ctx, set_voltage(ctx, self, Head(entries).ch, Head(entries).voltage)),
             self, Tail(entries))

\* for entry in params['voltage']: self.set_voltage(**entry)
RECURSIVE set_voltages(_, _, _)
set_voltages(ctx, self, entries) ==
    IF entries = <<>> THEN ctx
    ELSE set_voltages(set_voltage(ctx, self, Head(entries).ch, Head(entries).voltage),
                      self, Tail(entries))

\* for entry in params['current']: self.set_current(**entry)
RECURSIVE set_currents(_, _, _)
set_currents(ctx, self, entries) ==
    IF entries = <<>> THEN ctx
    ELSE set_currents(set_current(ctx, self, Head(entries).ch, Head(entries).current),
                      self, Tail(entries))

\* The two if statements of configure.
ConfigureVoltages(ctx, self, params) ==
    IF Truthy(params, "voltage") THEN set_voltages(ctx, self, params.voltage) ELSE ctx
ConfigureCurrents(ctx, self, params) ==
    IF Truthy(params, "current") THEN set_currents(ctx, self, params.current) ELSE ctx

\* configure were it to write the set-points before the switches.
configureSetPointsFirst(ctx, self, params) ==
    set_ocp(
        set_output(
            ConfigureCurrents(ConfigureVoltages(ctx, self, params), self, params),
            Get(params, "output")),
        Get(params, "ocp"))

\* Korad.configure(params): set_output, set_ocp, the voltages, the currents.
configure(ctx, self, params) ==
    ConfigureCurrents(
        ConfigureVoltages(
            set_ocp(set_output(ctx, Get(params, "output")), Get(params, "ocp")),
            self, params),
        self, params)

\* The fields _identify() reads off the groups of the match; match() returns None
\* for a text without a model number, and None has no groupdict.
ModelFields(c, model_info) ==
    IF c.err # "none" THEN c
    ELSE IF ~model_info.matched THEN Raise(c, "AttributeError")
    ELSE [c EXCEPT !.ret =
             [kind |-> "identity",
              id |-> c.line,
              channels |-> IF model_info.channels = <<Ord["0"]>> THEN 1 ELSE 3,
              max_current |-> int(model_info.max_current),
              max_voltage |-> int(model_info.max_voltage \o <<Ord["0"]>>)]]

MatchLine(c) == ModelFields(c, KORAD_MODEL_REGEX_match(c.line))

\* _identify were it to send its command a second time before it reads.
identifyTwice(ctx, mode) ==
    MatchLine(exchange(send_cmd(ctx, KORAD_ID_CMD, mode), KORAD_ID_CMD, mode))

\* Korad._identify(): the identification exchange, then the match.
identify(ctx, mode) == MatchLine(exchange(ctx, KORAD_ID_CMD, mode))

\* ord() of the reply text and the three entries read off its bits.
StatusFields(c) ==
    IF c.err # "none" THEN c
    ELSE IF Len(c.line) # 1 THEN Raise(c, "TypeError")
    ELSE [c EXCEPT !.ret =
             [kind |-> "status",
              output |-> (c.line[1] \div 64) % 2 = 1,
              mode |-> IF c.line[1] % 2 = 1 THEN "CV" ELSE "CC",
              ocp |-> (c.line[1] \div 32) % 2 = 1]]

\* The first statements of the status property: the status exchange and the
\* entries output, mode and ocp.
status_byte(ctx, mode) == StatusFields(exchange(ctx, KORAD_STATUS_CMD, mode))

\* ------------------------------------------------------------------- state

VARIABLES
    port,         \* the transport: "unopened", "open" or "closed"
    rx,           \* the bytes received and not yet read
    dev,          \* the device
    handle,       \* Korad(...): "none" before the call, "ready" or "raised" after
    psu,          \* the object's fields: clamp, id, channels, max_voltage, max_current
    registered,   \* whether atexit holds self.close
    exited,       \* whether the process has exited
    calls,        \* the method calls made on the object so far
    pc,           \* "idle", or the entry of the status dictionary evaluated next
    snap,         \* the entries of the status dictionary evaluated so far
    op,           \* the last call: its name and arguments
    io,           \* the transport and clock calls of the last call, in order
    err,          \* the exception the last call raised, or "none"
    ret           \* the value the last call returned

vars == <<port, rx, dev, handle, psu, registered, exited, calls, pc, snap, op, io, err, ret>>

\* --------------------------------------------------------------- the inputs

Channels == 1..MaxCh
Slots == 1..MaxSlot

\* The identification string of the test's power supply, and one of another make.
TestId ==
    Enc(<<"R", "N", "D", " ", "3", "2", "0", "-", "K", "D", "3", "0", "0", "5", "P", " ",
          "V", "2", ".", "0">>)
OtherId == Enc(<<"T", "E", "N", "M", "A", " ", "7", "2">>)
\* A three-channel power supply that ends its replies with CR LF.
ThreeChannelId == Enc(<<"K", "A", "3", "3", "0", "5", "P">>) \o <<13>>

\* The voltages and currents asked for: below 0, in range, the maximum of the
\* test's power supply (30 V, 5 A) and just above it.
VRequests == {PyFloat(-50), PyFloat(329), PyInt(30), PyFloat(3001)}
IRequests == {PyFloat(-50), PyFloat(1), PyInt(5), PyFloat(501)}

\* The configure() dictionaries: the test's (TEST_KORAD_CONFIG), one with an entry
\* per channel, one whose second entries are out of range, and the empty one.
TestConfig ==
    [ocp |-> FALSE, output |-> TRUE,
     voltage |-> <<[ch |-> 1, voltage |-> PyFloat(329)]>>,
     current |-> <<[ch |-> 1, current |-> PyFloat(1)]>>]
PerChannelConfig ==
    [output |-> FALSE,
     voltage |-> [ch \in Channels |->
                    [ch |-> ch, voltage |-> IF ch = 1 THEN PyFloat(329) ELSE PyInt(30)]],
     current |-> [ch \in Channels |->
                    [ch |-> ch, current |-> IF ch = 1 THEN PyInt(5) ELSE PyFloat(1)]]]
TooLargeConfig ==
    [ocp |-> TRUE,
     voltage |-> <<[ch |-> 1, voltage |-> PyFloat(-50)], [ch |-> 1, voltage |-> PyFloat(3001)]>>,
     current |-> <<[ch |-> 1, current |-> PyFloat(1)], [ch |-> 1, current |-> PyFloat(501)]>>]
EmptyConfig == [k \in {} |-> FALSE]
SessionConfigs == {TestConfig, PerChannelConfig, TooLargeConfig, EmptyConfig}

\* The fields of the object before __init__ has set them.
NoFields == [clamp |-> FALSE, id |-> <<>>, channels |-> 0, max_voltage |-> 0, max_current |-> 0]

\* A device as it is switched on, with identification string idn.
DeviceOn(idn) ==
    [idn |-> idn, vset |-> [ch \in Channels |-> 0], iset |-> [ch \in Channels |-> 0],
     out |-> FALSE, ocp |-> FALSE, cv |-> TRUE, rsv |-> 0]

InitWith(devices) ==
    /\ dev \in devices
    /\ port = "unopened"
    /\ rx = <<>>
    /\ handle = "none"
    /\ psu = NoFields
    /\ registered = FALSE
    /\ exited = FALSE
    /\ calls = 0
    /\ pc = "idle"
    /\ snap = None
    /\ op = [name |-> "none"]
    /\ io = <<>>
    /\ err = "none"
    /\ ret = None

Init == InitWith({DeviceOn(TestId), DeviceOn(ThreeChannelId), DeviceOn(OtherId)})

\* ------------------------------------------------------------------ actions

\* The state a call starts from, and the state it leaves.
Ctx == [port |-> port, rx |-> rx, wire |-> <<>>, dev |-> dev, io |-> <<>>,
        err |-> "none", line |-> <<>>, ret |-> None]

Commit(c) ==
    /\ port' = c.port
    /\ rx' = c.rx
    /\ dev' = c.dev
    /\ io' = c.io
    /\ err' = c.err

\* A call of a method of the object: the caller holds the object, runs no other
\* call and the process has not exited.
Callable == handle = "ready" /\ ~exited /\ pc = "idle" /\ calls < MaxCalls

\* A method that returns None.
Call(o, c) ==
    /\ Callable
    /\ op' = o
    /\ Commit(c)
    /\ ret' = None
    /\ calls' = calls + 1
    /\ UNCHANGED <<handle, psu, registered, exited, pc, snap>>

\* __init__ has run to its end, or raised: the object and its fields.
Opened(o, clamp, c) ==
    /\ handle = "none"
    /\ ~exited
    /\ op' = o
    /\ Commit(c)
    /\ ret' = None
    /\ IF c.err = "none"
       THEN /\ handle' = "ready"
            /\ psu' = [clamp |-> clamp, id |-> c.ret.id, channels |-> c.ret.channels,
                       max_voltage |-> c.ret.max_voltage, max_current |-> c.ret.max_current]
            /\ registered' = TRUE
       ELSE /\ handle' = "raised"
            /\ psu' = [psu EXCEPT !.clamp = clamp]
            /\ registered' = FALSE
    /\ UNCHANGED <<exited, calls, pc, snap>>

\* Korad(addr, timeout, clamp): serial_for_url() opens the port or raises; then
\* _identify(); then atexit.register(self.close).
OpenWith(clamps, opens, modes) ==
    \E clamp \in clamps, canOpen \in opens, mode \in modes :
        Opened([name |-> "open", clamp |-> clamp, canOpen |-> canOpen, mode |-> mode], clamp,
               IF canOpen
               THEN identify([Ctx EXCEPT !.port = "open", !.io = <<IO("open", <<>>)>>], mode)
               ELSE Raise([Ctx EXCEPT !.io = <<IO("open", <<>>)>>], "SerialException"))

Open == OpenWith(BOOLEAN, BOOLEAN, Modes)

SetVoltage ==
    \E ch \in Channels, v \in VRequests :
        Call([name |-> "set_voltage", ch |-> ch, value |-> v], set_voltage(Ctx, psu, ch, v))

SetCurrent ==
    \E ch \in Channels, v \in IRequests :
        Call([name |-> "set_current", ch |-> ch, value |-> v], set_current(Ctx, psu, ch, v))

SetOutput ==
    \E enable \in BOOLEAN :
        Call([name |-> "set_output", enable |-> enable], set_output(Ctx, enable))

SetOcp ==
    \E enable \in BOOLEAN :
        Call([name |-> "set_ocp", enable |-> enable], set_ocp(Ctx, enable))

SaveSettings ==
    \E loc \in Slots : Call([name |-> "save_settings", loc |-> loc], save_settings(Ctx, loc))

RecallSettings ==
    \E loc \in Slots : Call([name |-> "recall_settings", loc |-> loc], recall_settings(Ctx, loc))

Configure ==
    \E params \in SessionConfigs :
        Call([name |-> "configure", params |-> params], configure(Ctx, psu, params))

\* One of the four numeric reads.
ReadOps == {"measured_voltage", "measured_current", "configured_voltage", "configured_current"}
ReadCall(name, c, ch, mode) ==
    CASE name = "measured_voltage" -> measured_voltage(c, ch, mode)
      [] name = "measured_current" -> measured_current(c, ch, mode)
      [] name = "configured_voltage" -> configured_voltage(c, ch, mode)
      [] OTHER -> configured_current(c, ch, mode)

\* A method that returns a value.
Returned(o, c) ==
    /\ Callable
    /\ Len(rx) <= MaxRx
    /\ op' = o
    /\ Commit(c)
    /\ ret' = c.ret
    /\ calls' = calls + 1
    /\ UNCHANGED <<handle, psu, registered, exited, pc, snap>>

ReadWith(modes) ==
    \E name \in ReadOps, ch \in Channels, mode \in modes :
        Returned([name |-> name, ch |-> ch, mode |-> mode, waiting |-> Len(rx)],
                 ReadCall(name, Ctx, ch, mode))

Read == ReadWith(SessionModes)

\* The status property up to its first three entries; the other four follow, one
\* exchange each, unless the status exchange raised.
StatusBegun(o, c) ==
    /\ Callable
    /\ Len(rx) <= MaxRx
    /\ op' = o
    /\ Commit(c)
    /\ ret' = None
    /\ snap' = c.ret
    /\ pc' = IF c.err = "none" THEN "v_out" ELSE "idle"
    /\ calls' = calls + 1
    /\ UNCHANGED <<handle, psu, registered, exited>>

StatusWith(modes) ==
    \E mode \in modes :
        StatusBegun([name |-> "status", mode |-> mode, waiting |-> Len(rx)],
                    status_byte(Ctx, mode))

Status == StatusWith(SessionModes)

\* The next entry of the status dictionary: 'v_out': self.measured_voltage(), then
\* i_out, v_set and i_set, each of channel 1; after the last the dictionary is
\* returned.
StatusOrder == <<"v_out", "i_out", "v_set", "i_set">>
\* The entries were the current measured before the voltage.
StatusReadCurrentFirst ==
    [v_out |-> "measured_current", i_out |-> "measured_voltage",
     v_set |-> "configured_voltage", i_set |-> "configured_current"]
StatusRead == [v_out |-> "measured_voltage", i_out |-> "measured_current",
               v_set |-> "configured_voltage", i_set |-> "configured_current"]
StatusNext == [v_out |-> "i_out", i_out |-> "v_set", v_set |-> "i_set", i_set |-> "idle"]

StatusEntered(c) ==
    /\ pc # "idle"
    /\ ~exited
    /\ Commit(c)
    /\ IF c.err # "none"
       THEN pc' = "idle" /\ snap' = None /\ ret' = None
       ELSE /\ pc' = StatusNext[pc]
            /\ snap' = snap @@ (pc :> c.ret.val)
            /\ ret' = IF StatusNext[pc] = "idle" THEN snap' ELSE None
    /\ UNCHANGED <<handle, psu, registered, exited, calls, op>>

StatusEntryWith(modes) ==
    \E mode \in modes : StatusEntered(ReadCall(StatusRead[pc], [Ctx EXCEPT !.io = io], 1, mode))

StatusEntry == StatusEntryWith(SessionModes)

\* Korad.close(), called by the caller.
Close == Call([name |-> "close"], close(Ctx))

\* The process exits: atexit calls the close it holds.
Exit ==
    /\ ~exited
    /\ pc = "idle"
    /\ exited' = TRUE
    /\ op' = [name |-> "exit"]
    /\ ret' = None
    /\ Commit(IF registered THEN close(Ctx) ELSE Ctx)
    /\ UNCHANGED <<handle, psu, registered, calls, pc, snap>>

Next ==
    \/ Open
    \/ SetVoltage
    \/ SetCurrent
    \/ SetOutput
    \/ SetOcp
    \/ SaveSettings
    \/ RecallSettings
    \/ Configure
    \/ Read
    \/ Status
    \/ StatusEntry
    \/ Close
    \/ Exit

Spec == Init /\ [][Next]_vars

\* ------------------------------------------------- identification strings

\* The characters of the generated identification strings, and the strings: every
\* text of up to MaxIdLen of these characters, and four longer ones.
IdAlphabet == {"k", "D", "a", "3", "0", "P"}
TwoModelsId ==
    Enc(<<"K", "D", "3", "0", "0", "5", "P", " ", "K", "A", "6", "1", "0", "3", "P">>)
IdStrings ==
    {Enc(t) : t \in UNION {[1..n -> IdAlphabet] : n \in 0..MaxIdLen}}
    \cup {TestId, ThreeChannelId, OtherId, TwoModelsId}

\* Korad(addr) against a device of any of these identification strings, on a line
\* that carries every reply in time.
InitIdentify == InitWith({DeviceOn(idn) : idn \in IdStrings})
NextIdentify == OpenWith({TRUE}, {TRUE}, {"prompt"})
SpecIdentify == InitIdentify /\ [][NextIdentify]_vars

\* ------------------------------------------------------------ status bytes

\* The values of the bits 1-4 and 7 of the status byte.
ReservedBits ==
    {r \in 0..255 : r % 2 = 0 /\ (r \div 32) % 2 = 0 /\ (r \div 64) % 2 = 0}

\* The test's power supply in every state of its status byte.
StatusDevices ==
    {[DeviceOn(TestId) EXCEPT !.rsv = r, !.cv = cv, !.ocp = ocp, !.out = out] :
        r \in ReservedBits, cv \in BOOLEAN, ocp \in BOOLEAN, out \in BOOLEAN}

\* Korad(addr), then status any number of times, on a line that carries every
\* reply in time.
InitStatus == InitWith(StatusDevices)
NextStatus ==
    \/ OpenWith({FALSE}, {TRUE}, {"prompt"})
    \/ StatusWith({"prompt"})
    \/ StatusEntryWith({"prompt"})
SpecStatus == InitStatus /\ [][NextStatus]_vars

\* ------------------------------------------------------------------ claims

\* The data of the write calls of a log of transport calls, in order.
IsWrite(e) == e.call = "write"
Written(log) == SelectSeq(log, IsWrite)

\* Whether the bytes data are a set command of the given name: the name, digits, ":".
IsSetCommand(data, name) ==
    /\ Len(data) > 4
    /\ SubSeq(data, 1, 4) = Enc(name)
    /\ ColonAt(data) > 5

\* The value literal of a set command, and its value in hundredths.
LiteralOf(data) == SubSeq(data, ColonAt(data) + 1, Len(data))
ValueOf(data) == DecimalValue(LiteralOf(data))

\* The value a clamping set operation is to send for the request v, in hundredths.
Clamped(v, maximum) ==
    IF v.c < 0 THEN 0 ELSE IF v.c > 100 * maximum THEN 100 * maximum ELSE v.c

\* The maximum the last call's request is held against, and the name of its command.
MaximumOf(o) == IF o.name = "set_voltage" THEN psu.max_voltage ELSE psu.max_current
SetNameOf(o) ==
    IF o.name = "set_voltage" THEN <<"V", "S", "E", "T">> ELSE <<"I", "S", "E", "T">>
SetOps == {"set_voltage", "set_current"}

\* C1: with clamping enabled, on an open handle, set_voltage(ch, v) and
\* set_current(ch, v) raise nothing and write exactly one command, VSET<ch>: or
\* ISET<ch>: followed by a decimal literal whose value is 0 for v < 0, the maximum
\* for v above the maximum and v otherwise.
C1_ClampedLiteral ==
    (op.name \in SetOps /\ psu.clamp /\ port = "open") =>
        /\ err = "none"
        /\ Len(Written(io)) = 1
        /\ SubSeq(Written(io)[1].data, 1, ColonAt(Written(io)[1].data))
               = Enc(SetNameOf(op)) \o Digits(op.ch) \o Enc(<<":">>)
        /\ IsDecimal(LiteralOf(Written(io)[1].data))
        /\ ValueOf(Written(io)[1].data) = Clamped(op.value, MaximumOf(op))

\* C1, its case: a clamping set_voltage of a value above the maximum has written
\* its command.
C1_Witness ==
    /\ op.name = "set_voltage"
    /\ psu.clamp
    /\ port = "open"
    /\ op.value.c > 100 * psu.max_voltage
    /\ Len(Written(io)) = 1

\* C2: with clamping disabled, set_voltage and set_current of a value above the
\* maximum fail with the out-of-range error, the 'Too large' ValueError, and write
\* nothing.
C2_OutOfRangeError ==
    (op.name \in SetOps /\ ~psu.clamp /\ op.value.c > 100 * MaximumOf(op)) =>
        /\ err = "ValueError"
        /\ Written(io) = <<>>

\* C3: every VSET command written carries a value in [0, max_voltage] and every
\* ISET command a value in [0, max_current], whatever the calls and the clamp flag.
C3_WrittenInRange ==
    \A k \in 1..Len(io) :
        IsWrite(io[k]) =>
            /\ IsSetCommand(io[k].data, <<"V", "S", "E", "T">>) =>
                   ValueOf(io[k].data) \in 0..(100 * psu.max_voltage)
            /\ IsSetCommand(io[k].data, <<"I", "S", "E", "T">>) =>
                   ValueOf(io[k].data) \in 0..(100 * psu.max_current)

\* C3, its case: a clamping configure() whose entries are below 0 and above the
\* maximum has written its commands.
C3_Witness ==
    /\ op.name = "configure"
    /\ op.params = TooLargeConfig
    /\ psu.clamp
    /\ port = "open"
    /\ err = "none"
    /\ Len(Written(io)) = 6

\* Whether a log of transport calls holds a close.
Closes(log) == \E k \in 1..Len(log) : log[k].call = "close"

\* C4: a close() on a handle whose transport is closed already, by the caller or by
\* the process-exit hook, raises nothing and issues no close on the transport.
C4_ClosedOnce ==
    [][(port = "closed" /\ op'.name \in {"close", "exit"}) => (err' = "none" /\ ~Closes(io'))]_vars

\* The operations of a handle other than close.
SessionOps ==
    {"status", "measured_voltage", "measured_current", "configured_voltage",
     "configured_current", "set_voltage", "set_current", "set_output", "set_ocp",
     "save_settings", "recall_settings", "configure"}

\* C5: an operation called after close() fails with ClosedHandleError and attempts
\* no write and no read on the transport.
C5_ClosedHandle ==
    (port = "closed" /\ op.name \in SessionOps) =>
        /\ err = "ClosedHandleError"
        /\ \A k \in 1..Len(io) : io[k].call \notin {"write", "readline"}

\* The ways text s splits as the model pattern: <<i, e>> for "k" at i, "a" or "d",
\* a voltage digit, a channel digit, current digits up to e - 1 and "p" at e,
\* ignoring case.
Decompositions(s) ==
    {m \in (1..Len(s)) \X (1..Len(s)) :
        /\ m[2] > m[1] + 4
        /\ Lower(s[m[1]]) = Ord["k"]
        /\ Lower(s[m[1] + 1]) \in {Ord["a"], Ord["d"]}
        /\ \A j \in (m[1] + 2)..(m[2] - 1) : IsDigit(s[j])
        /\ Lower(s[m[2]]) = Ord["p"]}

\* C6: when the identification reply does not match the model pattern, open fails
\* with UnrecognizedDeviceError, produces no handle and has closed the transport.
C6_Unrecognized ==
    (op.name = "open" /\ op.canOpen /\ op.mode = "prompt"
        /\ Decompositions(rstrip(dev.idn)) = {}) =>
        /\ handle = "raised"
        /\ err = "UnrecognizedDeviceError"
        /\ port = "closed"

\* C7: a read operation whose reply never arrives, with nothing waiting to be read,
\* fails with TimeoutError (and not with the error of a reply that is no number or
\* no status byte).
C7_Timeout ==
    (op.name \in ReadOps \cup {"status"} /\ op.mode = "silent" /\ op.waiting = 0
        /\ port = "open") =>
        err = "TimeoutError"

\* C8: open succeeds on exactly the identification strings that match the model
\* pattern and yields, from the digits d, c, n of the model number (the last one,
\* were there several): channels = 1 if c is "0" and 3 otherwise, max_voltage =
\* 10 * d, max_current = the integer n, and id = the string, its trailing
\* whitespace stripped.
C8_Identity ==
    op.name = "open" =>
        IF Decompositions(rstrip(dev.idn)) = {}
        THEN handle = "raised"
        ELSE /\ handle = "ready"
             /\ psu.id = rstrip(dev.idn)
             /\ \E m \in Decompositions(rstrip(dev.idn)) :
                    /\ \A n \in Decompositions(rstrip(dev.idn)) : n[1] <= m[1]
                    /\ psu.channels = (IF dev.idn[m[1] + 3] = Ord["0"] THEN 1 ELSE 3)
                    /\ psu.max_voltage = 10 * (dev.idn[m[1] + 2] - Ord["0"])
                    /\ psu.max_current = int(SubSeq(dev.idn, m[1] + 4, m[2] - 1))

\* C8, its case: open has succeeded on a string that holds two model numbers.
C8_Witness ==
    /\ op.name = "open"
    /\ handle = "ready"
    /\ Cardinality(Decompositions(rstrip(dev.idn))) > 1

\* Bit n of byte b.
Bit(b, n) == (b \div (2 ^ n)) % 2 = 1

\* C9: for every status byte b the device returns, the status exchange raises
\* nothing and decodes mode "CV" iff bit 0 of b is set, ocp iff bit 5 and output
\* iff bit 6.
C9_StatusBits ==
    (op.name = "status" /\ op.mode = "prompt" /\ op.waiting = 0 /\ port = "open"
        /\ Len(io) = 3) =>
        /\ err = "none"
        /\ snap.mode = (IF Bit(StatusByte(dev), 0) THEN "CV" ELSE "CC")
        /\ snap.ocp = Bit(StatusByte(dev), 5)
        /\ snap.output = Bit(StatusByte(dev), 6)

\* The values a call asks channel ch to be set to, in order; key is "voltage" or
\* "current".
RequestsOf(o, key, ch) ==
    IF o.name = (IF key = "voltage" THEN "set_voltage" ELSE "set_current")
    THEN IF o.ch = ch THEN <<o.value>> ELSE <<>>
    ELSE IF o.name = "configure" /\ Truthy(o.params, key)
    THEN [k \in 1..Len(SelectSeq(o.params[key], LAMBDA e : e.ch = ch)) |->
             SelectSeq(o.params[key], LAMBDA e : e.ch = ch)[k][key]]
    ELSE <<>>

\* Whether the last of a sequence of requests is a value in [0, maximum].
LastInRange(vs, maximum) ==
    vs # <<>> /\ vs[Len(vs)].c \in 0..(100 * maximum)

\* C10: against a device that stores the last set-point it received per channel
\* and reports it on VSETn?/ISETn?, a set_voltage(ch, v) or configure() that
\* ends with an in-range v for channel ch leaves v as the set-point of ch; no
\* call without a set command for ch changes it; and configured_voltage(ch),
\* its reply in time and nothing waiting to be read, returns it.  The same for
\* the current.
C10_RoundTrip ==
    [][\A ch \in Channels :
        /\ (err' = "none" /\ port' = "open"
               /\ LastInRange(RequestsOf(op', "voltage", ch), psu.max_voltage)) =>
               dev'.vset[ch] = RequestsOf(op', "voltage", ch)[Len(RequestsOf(op', "voltage", ch))].c
        /\ (err' = "none" /\ port' = "open"
               /\ LastInRange(RequestsOf(op', "current", ch), psu.max_current)) =>
               dev'.iset[ch] = RequestsOf(op', "current", ch)[Len(RequestsOf(op', "current", ch))].c
        /\ dev'.vset[ch] # dev.vset[ch] => RequestsOf(op', "voltage", ch) # <<>>
        /\ dev'.iset[ch] # dev.iset[ch] => RequestsOf(op', "current", ch) # <<>>
        /\ (op'.name = "configured_voltage" /\ op'.ch = ch /\ op'.mode = "prompt"
               /\ op'.waiting = 0 /\ port' = "open" /\ calls' # calls) =>
               (err' = "none" /\ ret' = Float(PyFloat(dev.vset[ch])))
        /\ (op'.name = "configured_current" /\ op'.ch = ch /\ op'.mode = "prompt"
               /\ op'.waiting = 0 /\ port' = "open" /\ calls' # calls) =>
               (err' = "none" /\ ret' = Float(PyFloat(dev.iset[ch])))
      ]_vars

\* C10, its case: configured_voltage(2) has returned 30.0, which only a set command
\* of channel 2 makes the set-point.
C10_Witness ==
    /\ op.name = "configured_voltage"
    /\ op.ch = 2
    /\ op.mode = "prompt"
    /\ op.waiting = 0
    /\ err = "none"
    /\ ret = Float(PyFloat(3000))

\* Korad(addr), then set_output, set_ocp and status in any order, against the
\* power supply in every state of its status byte.
NextSwitches ==
    \/ NextStatus
    \/ SetOutput
    \/ SetOcp
SpecSwitches == InitStatus /\ [][NextSwitches]_vars

\* C11: against a device that applies OUT and OCP to bits 6 and 5 of its status
\* byte, the status read that follows set_output(e) raises nothing and reports
\* output = e, and the one that follows set_ocp(e) reports ocp = e.
C11_SwitchThenStatus ==
    [][(op.name \in {"set_output", "set_ocp"} /\ err = "none" /\ port = "open"
           /\ op'.name = "status" /\ op'.mode = "prompt" /\ op'.waiting = 0) =>
           /\ err' = "none"
           /\ op.name = "set_output" => snap'.output = op.enable
           /\ op.name = "set_ocp" => snap'.ocp = op.enable
      ]_vars

\* The digits of the channel and slot arguments, and the literals of the values
\* the calls send, as '{}'.format prints them.
DigitChar == <<"1", "2", "3", "4", "5", "6", "7", "8", "9">>
ValueLiteral ==
    (PyInt(0) :> <<"0">>) @@ (PyFloat(1) :> <<"0", ".", "0", "1">>)
    @@ (PyFloat(329) :> <<"3", ".", "2", "9">>) @@ (PyInt(5) :> <<"5">>)
    @@ (PyInt(30) :> <<"3", "0">>)

\* The value set_voltage or set_current sends for the request v: 0, the maximum or v.
SentValue(v, maximum) ==
    IF v.c < 0 THEN PyInt(0) ELSE IF v.c > 100 * maximum THEN PyInt(maximum) ELSE v

\* The bytes of the encoding table for a set command and for the other operations.
TableSet(name, ch, v, maximum) ==
    Enc(name \o <<DigitChar[ch], ":">> \o ValueLiteral[SentValue(v, maximum)])
TableCommand(o) ==
    CASE o.name = "open" -> Enc(<<"*", "I", "D", "N", "?">>)
      [] o.name = "save_settings" -> Enc(<<"S", "A", "V", DigitChar[o.loc]>>)
      [] o.name = "recall_settings" -> Enc(<<"R", "C", "L", DigitChar[o.loc]>>)
      [] o.name = "set_output" -> Enc(<<"O", "U", "T", IF o.enable THEN "1" ELSE "0">>)
      [] o.name = "set_ocp" -> Enc(<<"O", "C", "P", IF o.enable THEN "1" ELSE "0">>)
      [] o.name = "set_voltage" ->
             TableSet(<<"V", "S", "E", "T">>, o.ch, o.value, psu.max_voltage)
      [] o.name = "set_current" ->
             TableSet(<<"I", "S", "E", "T">>, o.ch, o.value, psu.max_current)
      [] o.name = "configured_voltage" -> Enc(<<"V", "S", "E", "T", DigitChar[o.ch], "?">>)
      [] o.name = "configured_current" -> Enc(<<"I", "S", "E", "T", DigitChar[o.ch], "?">>)
      [] o.name = "measured_voltage" -> Enc(<<"V", "O", "U", "T", DigitChar[o.ch], "?">>)
      [] o.name = "measured_current" -> Enc(<<"I", "O", "U", "T", DigitChar[o.ch], "?">>)

\* The commands of the five exchanges of a status read.
TableStatus ==
    <<Enc(<<"S", "T", "A", "T", "U", "S", "?">>), Enc(<<"V", "O", "U", "T", "1", "?">>),
      Enc(<<"I", "O", "U", "T", "1", "?">>), Enc(<<"V", "S", "E", "T", "1", "?">>),
      Enc(<<"I", "S", "E", "T", "1", "?">>)>>

\* The commands of the table a configure() of params may write.
TableConfigure(params) ==
    {Enc(<<"O", "U", "T", IF Get(params, "output") THEN "1" ELSE "0">>),
     Enc(<<"O", "C", "P", IF Get(params, "ocp") THEN "1" ELSE "0">>)}
    \cup (IF Truthy(params, "voltage")
          THEN {TableSet(<<"V", "S", "E", "T">>, params.voltage[k].ch,
                         params.voltage[k].voltage, psu.max_voltage) :
                    k \in 1..Len(params.voltage)}
          ELSE {})
    \cup (IF Truthy(params, "current")
          THEN {TableSet(<<"I", "S", "E", "T">>, params.current[k].ch,
                         params.current[k].current, psu.max_current) :
                    k \in 1..Len(params.current)}
          ELSE {})

\* C12: every write of every operation is exactly the byte sequence of the
\* encoding table for that operation and its arguments, with no line terminator:
\* one command for open and the single-command operations, the five commands of
\* status in their order, and the commands of its entries for configure.
C12_ExactBytes ==
    \A k \in 1..Len(Written(io)) :
        CASE op.name = "status" -> Written(io)[k].data = TableStatus[k]
          [] op.name = "configure" -> Written(io)[k].data \in TableConfigure(op.params)
          [] OTHER -> Written(io)[k].data = TableCommand(op)

\* C12, its case: set_voltage(2, 3.29) has written VSET2:3.29.
C12_Witness ==
    /\ op.name = "set_voltage"
    /\ Written(io) = <<IO("write", Enc(<<"V", "S", "E", "T", "2", ":", "3", ".", "2", "9">>))>>

\* C13: with the clamp flag set or not, on an open handle, set_voltage(ch, v) and
\* set_current(ch, v) with v < 0 raise nothing and write one command, VSET<ch>:0
\* or ISET<ch>:0.
C13_NegativeToZero ==
    (op.name \in SetOps /\ op.value.c < 0 /\ port = "open") =>
        /\ err = "none"
        /\ Written(io) = <<IO("write", Enc(SetNameOf(op) \o <<DigitChar[op.ch], ":", "0">>))>>

\* C13, its case: without the clamp flag, set_current of a negative value has
\* written its command.
C13_Witness ==
    /\ op.name = "set_current"
    /\ op.value.c < 0
    /\ ~psu.clamp
    /\ port = "open"
    /\ Len(Written(io)) = 1

\* One exchange as the log of transport calls keeps it: the write of the command,
\* the settle delay, the line read; and the five exchanges of a status read.
Exchange(cmd) == <<IO("write", cmd), IO("sleep", <<>>), IO("readline", <<>>)>>
StatusLog ==
    Exchange(TableStatus[1]) \o Exchange(TableStatus[2]) \o Exchange(TableStatus[3])
    \o Exchange(TableStatus[4]) \o Exchange(TableStatus[5])

\* C14: the transport calls of a status read on an open handle are, as far as it
\* has got, whole exchanges (write, settle delay, line read) of STATUS?, VOUT1?,
\* IOUT1?, VSET1?, ISET1? in this order, and all five when it returns.
C14_FiveExchanges ==
    (op.name = "status" /\ port = "open") =>
        /\ Len(io) \in {3, 6, 9, 12, 15}
        /\ io = SubSeq(StatusLog, 1, Len(io))
        /\ (pc # "idle") = (err = "none" /\ Len(io) < 15)
        /\ (pc # "idle") => Len(io) = 3 * (CHOOSE k \in 1..4 : StatusOrder[k] = pc)
        /\ (pc = "idle" /\ err = "none") => (io = StatusLog /\ ret.kind = "status")

\* C14, its case: a status read has returned its dictionary.
C14_Witness ==
    /\ op.name = "status"
    /\ pc = "idle"
    /\ err = "none"
    /\ io = StatusLog
    /\ ret.kind = "status"

\* ------------------------------------------------ configure() dictionaries

\* The dictionary with the one key given (option <<v>>), or with none (option <<>>).
Opt(key, option) == IF option = <<>> THEN EmptyConfig ELSE (key :> option[1])

\* The lists of entries under the key "voltage" or "current": empty, one entry, an
\* entry per channel from the last channel to the first, a value below 0, and a
\* value above the maximum between two in range.
EntryLists(key, inRange, other, above) ==
    {<<>>,
     <<(("ch" :> 1) @@ (key :> inRange))>>,
     [k \in Channels |->
         ("ch" :> (MaxCh + 1 - k)) @@ (key :> (IF k = 1 THEN other ELSE inRange))],
     <<(("ch" :> 1) @@ (key :> PyFloat(-50)))>>,
     <<(("ch" :> 1) @@ (key :> inRange)), (("ch" :> 1) @@ (key :> above)),
       (("ch" :> MaxCh) @@ (key :> other))>>}

\* The dictionaries configure() is called with: each key absent or present.
ConfigParams ==
    {Opt("output", o) @@ Opt("ocp", p) @@ Opt("voltage", v) @@ Opt("current", i) :
        o \in {<<>>, <<TRUE>>, <<FALSE>>},
        p \in {<<>>, <<TRUE>>, <<FALSE>>},
        v \in {<<>>} \cup {<<l>> : l \in EntryLists("voltage", PyFloat(329), PyInt(30), PyFloat(3001))},
        i \in {<<>>} \cup {<<l>> : l \in EntryLists("current", PyFloat(1), PyInt(5), PyFloat(501))}}

\* psu.configure(params) as the first call on the handle, as in the test's setUp.
SetUpConfigure ==
    /\ calls = 0
    /\ \E params \in ConfigParams :
           Call([name |-> "configure", params |-> params], configure(Ctx, psu, params))

\* Korad(addr, clamp), then configure(params).
InitConfigure == InitWith({DeviceOn(TestId), DeviceOn(ThreeChannelId)})
NextConfigure ==
    \/ OpenWith(BOOLEAN, {TRUE}, {"prompt"})
    \/ SetUpConfigure
SpecConfigure == InitConfigure /\ [][NextConfigure]_vars

\* The entries of the list under a key of a configure() dictionary, in list order.
EntriesOf(params, key) == IF Truthy(params, key) THEN params[key] ELSE <<>>

\* The commands a configure() of params is to write, in order: OUT, OCP, a VSET
\* per voltage entry, an ISET per current entry.
ConfigCommands(params) ==
    <<Enc(<<"O", "U", "T", IF Get(params, "output") THEN "1" ELSE "0">>),
      Enc(<<"O", "C", "P", IF Get(params, "ocp") THEN "1" ELSE "0">>)>>
    \o [k \in 1..Len(EntriesOf(params, "voltage")) |->
           TableSet(<<"V", "S", "E", "T">>, params.voltage[k].ch, params.voltage[k].voltage,
                    psu.max_voltage)]
    \o [k \in 1..Len(EntriesOf(params, "current")) |->
           TableSet(<<"I", "S", "E", "T">>, params.current[k].ch, params.current[k].current,
                    psu.max_current)]

\* Whether each entry asks for a value above the maximum, the voltage entries
\* first, and the index of the first entry that does, or 0.
AboveMaximum(params) ==
    [k \in 1..Len(EntriesOf(params, "voltage")) |->
        params.voltage[k].voltage.c > 100 * psu.max_voltage]
    \o [k \in 1..Len(EntriesOf(params, "current")) |->
           params.current[k].current.c > 100 * psu.max_current]
FirstAbove(params) ==
    IF \E k \in 1..Len(AboveMaximum(params)) : AboveMaximum(params)[k]
    THEN CHOOSE k \in 1..Len(AboveMaximum(params)) :
             AboveMaximum(params)[k] /\ \A j \in 1..(k - 1) : ~AboveMaximum(params)[j]
    ELSE 0

\* The bytes written by the last call, in order.
WrittenData == [k \in 1..Len(Written(io)) |-> Written(io)[k].data]

\* C15: a configure() that raises nothing has written, in this order and nothing
\* else: one OUT command (OUT0 without the key 'output'), one OCP command (OCP0
\* without the key 'ocp'), one VSET per entry of the voltage list in list order,
\* one ISET per entry of the current list in list order.
C15_ConfigureOrder ==
    (op.name = "configure" /\ port = "open" /\ (psu.clamp \/ FirstAbove(op.params) = 0)) =>
        /\ err = "none"
        /\ WrittenData = ConfigCommands(op.params)

\* C15, its case: a configure() without the keys 'output' and 'ocp', with voltage
\* entries from the last channel to the first and three current entries, has
\* written its seven commands or more.
C15_Witness ==
    /\ op.name = "configure"
    /\ DOMAIN op.params = {"voltage", "current"}
    /\ Len(op.params.voltage) = MaxCh
    /\ op.params.voltage[1].ch = MaxCh
    /\ Len(op.params.current) = 3
    /\ err = "none"
    /\ Len(WrittenData) = 5 + MaxCh

\* The index of the last entry for channel ch among the first n of a list, or 0.
LastFor(entries, n, ch) ==
    IF \E k \in 1..n : entries[k].ch = ch
    THEN CHOOSE k \in 1..n : entries[k].ch = ch /\ \A j \in (k + 1)..n : entries[j].ch # ch
    ELSE 0

\* How many voltage entries precede the first entry above the maximum.
VoltagesBefore(params) ==
    IF FirstAbove(params) - 1 < Len(EntriesOf(params, "voltage"))
    THEN FirstAbove(params) - 1
    ELSE Len(EntriesOf(params, "voltage"))

\* C20: without the clamp flag, a configure() with an entry above the maximum
\* raises; it has written OUT, OCP and the set commands of the entries before
\* that entry, in order, and nothing for that entry or a later one; and what it
\* has written stands: the device's switches are those of the dictionary and the
\* voltage set-point of a channel is that of its last entry before the failing one.
C20_PartialConfigure ==
    (op.name = "configure" /\ port = "open" /\ ~psu.clamp /\ FirstAbove(op.params) > 0) =>
        /\ err # "none"
        /\ WrittenData = SubSeq(ConfigCommands(op.params), 1, 1 + FirstAbove(op.params))
        /\ dev.out = Get(op.params, "output")
        /\ dev.ocp = Get(op.params, "ocp")
        /\ \A ch \in Channels :
               LastFor(EntriesOf(op.params, "voltage"), VoltagesBefore(op.params), ch) # 0 =>
                   dev.vset[ch] =
                       Clamped(op.params.voltage[
                                   LastFor(EntriesOf(op.params, "voltage"),
                                           VoltagesBefore(op.params), ch)].voltage,
                               psu.max_voltage)

\* C20, its case: a configure() has raised at its second current entry, after
\* OUT1, OCP1, two voltage commands and one current command.
C20_Witness ==
    /\ op.name = "configure"
    /\ ~psu.clamp
    /\ err # "none"
    /\ Get(op.params, "output")
    /\ Get(op.params, "ocp")
    /\ Len(EntriesOf(op.params, "voltage")) = MaxCh
    /\ FirstAbove(op.params) = MaxCh + 2
    /\ Len(WrittenData) = MaxCh + 3

\* The state of the handle: Unopened before the transport is open, Identifying
\* while it is open and the identity fields are not set, Ready once they are,
\* Closed when the transport is closed.
HandleStateOf(p, h) ==
    IF p = "unopened" THEN "Unopened"
    ELSE IF p = "closed" THEN "Closed"
    ELSE IF h = "ready" THEN "Ready"
    ELSE "Identifying"

\* The moves of a handle in one call; Korad(...) passes through Identifying on its
\* way to Ready, and stays Unopened when the transport does not open.
HandleMoves ==
    {<<"Unopened", "Unopened">>, <<"Unopened", "Identifying">>, <<"Unopened", "Ready">>,
     <<"Identifying", "Identifying">>, <<"Identifying", "Closed">>,
     <<"Ready", "Ready">>, <<"Ready", "Closed">>, <<"Closed", "Closed">>}

\* C16: a handle moves only along Unopened -> Identifying -> Ready -> Closed (or
\* Identifying -> Closed), and nothing leaves Closed; the call that opens the
\* transport writes *IDN? as its first and only command, no later call writes
\* it, and the identity fields are set in Ready and Closed only.
C16_HandleStates ==
    [][/\ <<HandleStateOf(port, handle), HandleStateOf(port', handle')>> \in HandleMoves
       /\ (port = "unopened" /\ port' # "unopened") =>
              /\ Len(io') >= 2
              /\ io'[1] = IO("open", <<>>)
              /\ io'[2] = IO("write", Enc(<<"*", "I", "D", "N", "?">>))
              /\ Len(Written(io')) = 1
       /\ port # "unopened" =>
              \A k \in 1..Len(io') : io'[k] # IO("write", Enc(<<"*", "I", "D", "N", "?">>))
       /\ (psu'.id # <<>> \/ psu'.channels # 0 \/ psu'.max_voltage # 0 \/ psu'.max_current # 0)
              => HandleStateOf(port', handle') \in {"Ready", "Closed"}
       /\ HandleStateOf(port', handle') = "Ready" => psu'.channels \in {1, 3}
      ]_vars

\* C16, its case: a handle that was opened and identified is closed, and a call
\* was made on it since.
C16_Witness ==
    /\ HandleStateOf(port, handle) = "Closed"
    /\ psu.channels = 3
    /\ op.name \in SessionOps

\* The operations that send one command and read no reply.
SendOnlyOps ==
    {"save_settings", "recall_settings", "set_output", "set_ocp", "set_voltage", "set_current"}

\* C17: on an open handle, save_settings, recall_settings, set_output, set_ocp and
\* a set_voltage or set_current that raises nothing make one write, then the
\* settle delay, and no read; a numeric read makes one write and one read whether
\* the reply comes or not; and no call writes the same bytes twice.
C17_OneWriteNoRetry ==
    /\ (op.name \in SendOnlyOps /\ port = "open" /\ err = "none") =>
           io = <<IO("write", TableCommand(op)), IO("sleep", <<>>)>>
    /\ (op.name \in ReadOps /\ port = "open") => io = Exchange(TableCommand(op))
    /\ \A j \in 1..Len(Written(io)) : \A k \in 1..Len(Written(io)) :
           j # k => Written(io)[j] # Written(io)[k]

\* C17, its case: a measured_voltage has raised for want of a reply, after one
\* write.
C17_Witness ==
    /\ op.name = "measured_voltage"
    /\ op.mode = "silent"
    /\ op.waiting = 0
    /\ port = "open"
    /\ err # "none"
    /\ Len(Written(io)) = 1

\* ------------------------------------------------- a device that changes

\* The output button of the front panel is pressed, and the load changes the
\* regulation mode: the device changes at any time, also between two exchanges
\* of one status read.
PanelOutput ==
    /\ handle = "ready"
    /\ dev' = [dev EXCEPT !.out = ~@]
    /\ UNCHANGED <<port, rx, handle, psu, registered, exited, calls, pc, snap, op, io, err, ret>>

LoadChange ==
    /\ handle = "ready"
    /\ dev' = [dev EXCEPT !.cv = ~@]
    /\ UNCHANGED <<port, rx, handle, psu, registered, exited, calls, pc, snap, op, io, err, ret>>

\* The test's power supply set to 3.29 V and 0.01 A, its output on.
DeviceInUse ==
    [DeviceOn(TestId) EXCEPT !.out = TRUE, !.vset = [ch \in Channels |-> 329],
                             !.iset = [ch \in Channels |-> 1]]

\* Korad(addr), then status reads, while the device changes.
InitPanel == InitWith({DeviceInUse})
NextPanel ==
    \/ OpenWith({TRUE}, {TRUE}, {"prompt"})
    \/ StatusWith({"prompt"})
    \/ StatusEntryWith({"prompt"})
    \/ PanelOutput
    \/ LoadChange
SpecPanel == InitPanel /\ [][NextPanel]_vars

\* What the device holds for an entry of the status dictionary.
DeviceEntry(d, key) ==
    CASE key = "v_out" -> PyFloat(DevMeasuredV(d, 1))
      [] key = "i_out" -> PyFloat(DevMeasuredI(d, 1))
      [] key = "v_set" -> PyFloat(d.vset[1])
      [] key = "i_set" -> PyFloat(d.iset[1])

\* C18: a status read is not atomic.  Each entry is what the device holds at the
\* entry's own exchange, which may be after a change of the device, and the
\* entries read before a change stay as they were read; so a snapshot may hold
\* entries the device never held together (C18_Witness).
C18_NotAtomic ==
    [][(pc # "idle" /\ err' = "none") =>
           /\ \A key \in DOMAIN snap : snap'[key] = snap[key]
           /\ pc' # pc => snap'[pc] = DeviceEntry(dev, pc)
      ]_vars

\* C18, its case: the snapshot returned says output on in constant-voltage mode,
\* where the device holds 3.29 V at its terminals, and v_out 0.0, measured after
\* the output was switched off.
C18_Witness ==
    /\ op.name = "status"
    /\ pc = "idle"
    /\ err = "none"
    /\ ret.kind = "status"
    /\ ret.output
    /\ ret.mode = "CV"
    /\ ret.v_set = PyFloat(329)
    /\ ret.v_out = PyFloat(0)

\* ---------------------------------------------- replies that arrive late

\* Korad(addr), then numeric reads and status reads on a line whose replies come
\* in time, late or never, against the power supply in use (it does not change).
NextLate ==
    \/ OpenWith({TRUE}, {TRUE}, {"prompt"})
    \/ ReadWith(Modes)
    \/ StatusWith(Modes)
    \/ StatusEntryWith(Modes)
SpecLate == InitPanel /\ [][NextLate]_vars

\* What the device holds for the quantity a numeric read asks for.
DeviceValue(d, name, ch) ==
    CASE name = "measured_voltage" -> PyFloat(DevMeasuredV(d, ch))
      [] name = "measured_current" -> PyFloat(DevMeasuredI(d, ch))
      [] name = "configured_voltage" -> PyFloat(d.vset[ch])
      [] name = "configured_current" -> PyFloat(d.iset[ch])

\* C19: a value a read operation returns is the device's reply to the command of
\* that same exchange, so what the device holds for the quantity asked for, also
\* after an earlier read has timed out and its reply has arrived late; the same
\* for the entries of the dictionary a status read returns.
C19_OwnReply ==
    /\ (op.name \in ReadOps /\ err = "none") =>
           ret = Float(DeviceValue(dev, op.name, op.ch))
    /\ (op.name = "status" /\ pc = "idle" /\ err = "none") =>
           /\ ret.output = dev.out
           /\ ret.ocp = dev.ocp
           /\ ret.mode = (IF dev.cv THEN "CV" ELSE "CC")
           /\ \A key \in {"v_out", "i_out", "v_set", "i_set"} :
                  ret[key] = DeviceEntry(dev, key)

====
